---- MODULE Spec2Model ----
(***************************************************************************)
(* Volume renderer of SMPLNeRF (src/utils.py): raw2outputs, sample_pdf and *)
(* fine_sampling, as a state machine whose steps are calls of these        *)
(* functions on one ray.                                                   *)
(*                                                                         *)
(* Numbers.  A tensor element is an exact real, written as a Laurent       *)
(* polynomial in EPS = 1e-10 with rational coefficients:                   *)
(*     [lo |-> l, c |-> <<c1, ..., cn>>, d |-> d]                          *)
(* stands for (c1*EPS^l + c2*EPS^(l+1) + ... + cn*EPS^(l+n-1)) / d.        *)
(* So 1e-10 is EPS, 1e10 is EPS^-1, 1e-6 is 10^4*EPS, and a rational n/d   *)
(* is the constant polynomial.  Every value is kept normalised (no zero    *)
(* end coefficient, coefficients and denominator coprime), so equal reals  *)
(* are equal values.  All coefficients are integers below 2^31 < 10^10/2,  *)
(* so the sign of a value is the sign of its lowest-order coefficient.     *)
(*                                                                         *)
(* Densities and colour logits are measured in units of ln 2, so that      *)
(* exp(-x) is the exact dyadic 2^-x on the integers the inputs produce,    *)
(* and is 0 (floating-point underflow) once x is of the order of 1e10.     *)
(***************************************************************************)
EXTENDS Integers, Sequences, FiniteSets, TLC

(* ---------------------------------------------------------------------- *)
(* Exact arithmetic                                                        *)
(* ---------------------------------------------------------------------- *)

Abs(x) == IF x < 0 THEN -x ELSE x

Min2(x, y) == IF x <= y THEN x ELSE y

Max2(x, y) == IF x >= y THEN x ELSE y

\* a function over 1..n as an explicit tuple (each element evaluated once)
Tup(f) == f \o <<>>

RECURSIVE GCD(_, _)
GCD(x, y) == IF y = 0 THEN Abs(x) ELSE GCD(y, x % Abs(y))

RECURSIVE SeqGCDFrom(_, _)
SeqGCDFrom(s, i) == IF i > Len(s) THEN 0 ELSE GCD(s[i], SeqGCDFrom(s, i + 1))

SeqGCD(s) == SeqGCDFrom(s, 1)

RECURSIVE Pow2(_)
Pow2(k) == IF k <= 0 THEN 1 ELSE 2 * Pow2(k - 1)

Zero == [lo |-> 0, c |-> <<0>>, d |-> 1]

\* index of the first / last non-zero coefficient (0 when there is none)
FirstNZ(s) == IF \A i \in 1..Len(s) : s[i] = 0 THEN 0
              ELSE CHOOSE i \in 1..Len(s) : s[i] # 0 /\ \A j \in 1..(i - 1) : s[j] = 0

LastNZ(s) == IF \A i \in 1..Len(s) : s[i] = 0 THEN 0
             ELSE CHOOSE i \in 1..Len(s) : s[i] # 0 /\ \A j \in (i + 1)..Len(s) : s[j] = 0

\* a without the zero coefficients before f and after l, reduced by g
NormBy(a, f, l, g) ==
    IF f = 0 THEN Zero
    ELSE [lo |-> a.lo + f - 1,
          c  |-> Tup([i \in 1..(l - f + 1) |-> a.c[f + i - 1] \div g]),
          d  |-> a.d \div g]

Norm(a) ==
    IF a.c[1] # 0 /\ a.c[Len(a.c)] # 0 /\ GCD(SeqGCD(a.c), a.d) = 1 THEN a
    ELSE NormBy(a, FirstNZ(a.c), LastNZ(a.c), GCD(SeqGCD(a.c), a.d))

Rat(n, d) == Norm([lo |-> 0, c |-> <<n>>, d |-> d])

IntNum(n) == Rat(n, 1)

One == IntNum(1)

\* n * EPS^k
EpsPow(n, k) == Norm([lo |-> k, c |-> <<n>>, d |-> 1])

Coef(a, k) == IF k >= a.lo /\ k < a.lo + Len(a.c) THEN a.c[k - a.lo + 1] ELSE 0

\* a * fa + b * fb over the denominator a.d * fa, for the orders lo..hi
AddScaled(a, b, fa, fb, lo, hi) ==
    Norm([lo |-> lo,
          c  |-> Tup([i \in 1..(hi - lo + 1) |->
                     Coef(a, lo + i - 1) * fa + Coef(b, lo + i - 1) * fb]),
          d  |-> a.d * fa])

Add(a, b) ==
    AddScaled(a, b, b.d \div GCD(a.d, b.d), a.d \div GCD(a.d, b.d),
              Min2(a.lo, b.lo), Max2(a.lo + Len(a.c), b.lo + Len(b.c)) - 1)

Neg(a) == [lo |-> a.lo, c |-> Tup([i \in 1..Len(a.c) |-> -a.c[i]]), d |-> a.d]

Sub(a, b) == Add(a, Neg(b))

RECURSIVE ConvAt(_, _, _, _)
ConvAt(s, t, k, i) ==
    IF i > Len(s) THEN 0
    ELSE (IF k + 1 - i >= 1 /\ k + 1 - i <= Len(t) THEN s[i] * t[k + 1 - i] ELSE 0)
         + ConvAt(s, t, k, i + 1)

Conv(s, t) == Tup([k \in 1..(Len(s) + Len(t) - 1) |-> ConvAt(s, t, k, 1)])

\* a * b with g1 cancelled between a.c and b.d, g2 between b.c and a.d
MulReduced(a, b, g1, g2) ==
    Norm([lo |-> a.lo + b.lo,
          c  |-> Conv(Tup([i \in 1..Len(a.c) |-> a.c[i] \div g1]),
                      Tup([i \in 1..Len(b.c) |-> b.c[i] \div g2])),
          d  |-> (a.d \div g2) * (b.d \div g1)])

Mul(a, b) ==
    IF a = Zero \/ b = Zero THEN Zero
    ELSE MulReduced(a, b, GCD(SeqGCD(a.c), b.d), GCD(SeqGCD(b.c), a.d))

\* a / b for a one-term, non-zero b
Div(a, b) ==
    Mul(a, [lo |-> -b.lo,
            c  |-> <<IF b.c[1] > 0 THEN b.d ELSE -b.d>>,
            d  |-> Abs(b.c[1])])

Sign(a) == IF a.c[1] > 0 THEN 1 ELSE IF a.c[1] < 0 THEN -1 ELSE 0

IsRat(a) == a.lo = 0 /\ Len(a.c) = 1

\* n1/d1 <= n2/d2 for positive d1, d2, by continued fractions (no products)
RECURSIVE RatLeq(_, _, _, _)
RatLeq(n1, d1, n2, d2) ==
    LET q1 == n1 \div d1
        q2 == n2 \div d2
        r1 == n1 % d1
        r2 == n2 % d2
    IN  IF q1 # q2 THEN q1 < q2
        ELSE IF r1 = 0 THEN TRUE
        ELSE IF r2 = 0 THEN FALSE
        ELSE RatLeq(d2, r2, d1, r1)

Leq(a, b) == IF IsRat(a) /\ IsRat(b) THEN RatLeq(a.c[1], a.d, b.c[1], b.d)
             ELSE Sign(Sub(a, b)) <= 0

Less(a, b) == ~Leq(b, a)

RECURSIVE SumFrom(_, _)
SumFrom(s, i) == IF i > Len(s) THEN Zero ELSE Add(s[i], SumFrom(s, i + 1))

\* torch.sum over the last axis
Sum(s) == SumFrom(s, 1)

(* ---------------------------------------------------------------------- *)
(* Tensor primitives                                                       *)
(* ---------------------------------------------------------------------- *)

\* 1e-10 and 1e10
Eps == EpsPow(1, 1)

Big == EpsPow(1, -1)

RECURSIVE ISqrtFrom(_, _)
ISqrtFrom(s, n) == IF (n + 1) * (n + 1) > s THEN n ELSE ISqrtFrom(s, n + 1)

\* torch.norm(v, dim=-1) of an integer 3-vector (the inputs have integer norms)
TorchNorm(v) == IntNum(ISqrtFrom(v[1] * v[1] + v[2] * v[2] + v[3] * v[3], 0))

\* torch.nn.functional.relu
Relu(x) == IF Sign(x) > 0 THEN x ELSE Zero

\* torch.exp(-x) for x >= 0 in units of ln 2: 1 at 0, 2^-k at the integer k,
\* and 0 (underflow, in single and in double precision) from 1e10 on
ExpNeg(x) == IF x = Zero THEN One
             ELSE IF x.lo < 0 THEN Zero
             ELSE Rat(1, Pow2(x.c[1]))

\* torch.sigmoid(x) = 1 / (1 + exp(-x)) for x in units of ln 2: 2^k / (2^k + 1)
\* at the integer k; exp(-x) underflows to 0 or overflows to inf at +-1e10
Sigmoid(x) == IF x = Zero THEN Rat(1, 2)
              ELSE IF x.lo < 0 THEN (IF Sign(x) > 0 THEN One ELSE Zero)
              ELSE IF x.c[1] > 0 THEN Rat(Pow2(x.c[1]), Pow2(x.c[1]) + 1)
              ELSE Rat(1, 1 + Pow2(-x.c[1]))

CumprodNext(p, s, k) == Append(p, IF k = 1 THEN s[1] ELSE Mul(p[k - 1], s[k]))

RECURSIVE CumprodUpTo(_, _)
CumprodUpTo(s, k) == IF k = 0 THEN <<>> ELSE CumprodNext(CumprodUpTo(s, k - 1), s, k)

\* torch.cumprod over the last axis
Cumprod(s) == CumprodUpTo(s, Len(s))

(* ---------------------------------------------------------------------- *)
(* raw2outputs, for one ray: raw[k] = <<r, g, b, sigma>>, z_vals[k] the     *)
(* depth and samples_directions[k] the direction of sample k, noise[k] the *)
(* value torch.normal draws for sample k                                   *)
(* ---------------------------------------------------------------------- *)

raw2density(raw_sigma, dist) == Sub(One, ExpNeg(Mul(Relu(raw_sigma), dist)))

dists_diff(z_vals) == Tup([k \in 1..(Len(z_vals) - 1) |-> Sub(z_vals[k + 1], z_vals[k])])

\* [1e10] expanded to the shape of dists[..., :1], which is empty for one sample
cat_big(d) == d \o (IF Len(d) >= 1 THEN <<Big>> ELSE <<>>)

dists_cat(z_vals) == cat_big(dists_diff(z_vals))

\* slip: the intervals are not scaled by the norm of the direction
dists_unscaled(z_vals, samples_directions) == dists_cat(z_vals)

times_norm(d, samples_directions) ==
    Tup([k \in 1..Len(d) |-> Mul(d[k], TorchNorm(samples_directions[k]))])

dists(z_vals, samples_directions) == times_norm(dists_cat(z_vals), samples_directions)

\* slip: the raw colours are used without the sigmoid
rgb_unsquashed(raw) == Tup([k \in 1..Len(raw) |-> <<raw[k][1], raw[k][2], raw[k][3]>>])

rgb_sigmoid(raw) ==
    Tup([k \in 1..Len(raw) |-> <<Sigmoid(raw[k][1]), Sigmoid(raw[k][2]), Sigmoid(raw[k][3])>>])

\* slip: the noise is drawn but never added
noise_dropped(raw, args, noise) == Tup([k \in 1..Len(raw) |-> Zero])

noise_added(raw, args, noise) ==
    Tup([k \in 1..Len(raw) |-> IF Sign(args.sigma_noise_std) > 0 THEN noise[k] ELSE Zero])

density(raw, z_vals, samples_directions, args, noise) ==
    LET d  == dists(z_vals, samples_directions)
        ns == noise_added(raw, args, noise)
    IN  Tup([k \in 1..Len(raw) |-> raw2density(Add(raw[k][4], ns[k]), d[k])])

\* slip: density + 1e-10 in place of 1 - density + 1e-10
one_minus_density_flipped(dens) == Tup([k \in 1..Len(dens) |-> Add(dens[k], Eps)])

one_minus_density(dens) == Tup([k \in 1..Len(dens) |-> Add(Sub(One, dens[k]), Eps)])

\* slip: the inclusive cumulative product
exclusive_inclusive(dens) == one_minus_density(dens)

\* ones, then one_minus_density without its last column
exclusive(dens) == <<One>> \o SubSeq(one_minus_density(dens), 1, Len(dens) - 1)

\* slip: the transmittance is left out
weights_no_transmittance(dens) == dens

weights(dens) ==
    LET cp == Cumprod(exclusive(dens))
    IN  Tup([k \in 1..Len(dens) |-> Mul(dens[k], cp[k])])

rgb_map(w, rgb) ==
    Tup([ch \in 1..3 |-> Sum(Tup([k \in 1..Len(w) |-> Mul(w[k], rgb[k][ch])]))])

depth_map(w, z_vals) == Sum(Tup([k \in 1..Len(w) |-> Mul(w[k], z_vals[k])]))

acc_map(w) == Sum(w)

\* slip: nothing is added for the background
white_composite_none(rgb, acc) == rgb

\* slip: a full white background is added whatever the opacity
white_composite_plus_one(rgb, acc) == Tup([ch \in 1..3 |-> Add(rgb[ch], One)])

white_composite(rgb, acc) == Tup([ch \in 1..3 |-> Add(rgb[ch], Sub(One, acc))])

\* the local variables of raw2outputs when it returns
locals_from_maps(z_vals, samples_directions, args, dens, w, rgb, acc) ==
    [dists     |-> dists(z_vals, samples_directions),
     density   |-> dens,
     weights   |-> w,
     rgb       |-> IF args.white_background THEN white_composite(rgb, acc) ELSE rgb,
     depth_map |-> depth_map(w, z_vals),
     acc_map   |-> acc]

locals_from_weights(raw, z_vals, samples_directions, args, dens, w) ==
    locals_from_maps(z_vals, samples_directions, args, dens, w,
                     rgb_map(w, rgb_sigmoid(raw)), acc_map(w))

locals_from_density(raw, z_vals, samples_directions, args, dens) ==
    locals_from_weights(raw, z_vals, samples_directions, args, dens, weights(dens))

raw2outputs_locals(raw, z_vals, samples_directions, args, noise) ==
    IF Len(z_vals) = 1
    THEN [dists |-> dists(z_vals, samples_directions), rgb |-> rgb_sigmoid(raw)]
    ELSE locals_from_density(raw, z_vals, samples_directions, args,
                             density(raw, z_vals, samples_directions, args, noise))

\* slip: weights and density returned in the other order
raw2outputs_return_swapped(z_vals, l) ==
    IF Len(z_vals) = 1 THEN <<l.rgb[1], <<One>>, <<One>>>>
    ELSE <<l.rgb, l.density, l.weights>>

\* the tuple raw2outputs returns
raw2outputs_return(z_vals, l) ==
    IF Len(z_vals) = 1 THEN <<l.rgb[1], <<One>>, <<One>>>>
    ELSE <<l.rgb, l.weights, l.density>>

raw2outputs(raw, z_vals, samples_directions, args, noise) ==
    raw2outputs_return(z_vals, raw2outputs_locals(raw, z_vals, samples_directions, args, noise))

(* ---------------------------------------------------------------------- *)
(* sample_pdf and fine_sampling, for one ray                               *)
(* ---------------------------------------------------------------------- *)

\* s[lo:hi] of Python for 0 <= lo and hi < 0
\* slip: the slice starts one entry late
PySlice_late(s, lo, hi) == SubSeq(s, lo + 2, Len(s) + hi)

PySlice(s, lo, hi) == SubSeq(s, lo + 1, Len(s) + hi)

CumsumNext(p, s, k) == Append(p, IF k = 1 THEN s[1] ELSE Add(p[k - 1], s[k]))

RECURSIVE CumsumUpTo(_, _)
CumsumUpTo(s, k) == IF k = 0 THEN <<>> ELSE CumsumNext(CumsumUpTo(s, k - 1), s, k)

\* torch.cumsum over the last axis
Cumsum(s) == CumsumUpTo(s, Len(s))

\* torch.linspace(0., 1., steps)
Linspace(steps) ==
    Tup([j \in 1..steps |-> IF steps = 1 THEN Zero ELSE Rat(j - 1, steps - 1)])

\* searchsorted(cdf, u, side='right'): the number of entries of cdf that are <= u
searchsorted_right(cdf, u) == Cardinality({i \in 1..Len(cdf) : Leq(cdf[i], u)})

\* 1e-5
PdfEps == Rat(1, 100000)

normalised(w, total) == Tup([k \in 1..Len(w) |-> Div(w[k], total)])

sum_normalised(w) == normalised(w, Sum(w))

pdf_of(w) == sum_normalised(Tup([k \in 1..Len(w) |-> Add(w[k], PdfEps)]))

\* the running sum prefixed with zeros_like(cdf[..., :1]), which is empty for an empty pdf
cat_zeros(cs) == (IF Len(cs) >= 1 THEN <<Zero>> ELSE <<>>) \o cs

cdf_of(w) == cat_zeros(Cumsum(pdf_of(w)))

\* 0-based indices below and above of quantile u
below_above(cdf, inds) == <<Max2(0, inds - 1), Min2(Len(cdf) - 1, inds)>>

inds_g(cdf, u) == below_above(cdf, searchsorted_right(cdf, u))

\* torch.gather raises for an index outside the gathered axis
GatherOk(size, ig) == \A i \in 1..2 : ig[i] >= 0 /\ ig[i] < size

\* expand of an axis of length n to length m
ExpandOk(n, m) == n = m \/ n = 1

\* torch.where(denom < 1e-5, ones, denom)
denom_of(dn) == IF Less(dn, PdfEps) THEN One ELSE dn

\* slip: the lower bin edge, without the interpolation
sample_between_lower(bins_g0, bins_g1, cdf_g0, cdf_g1, u) == bins_g0

\* the sample between the gathered bins for the gathered cdf values
sample_between(bins_g0, bins_g1, cdf_g0, cdf_g1, u) ==
    Add(bins_g0, Mul(Div(Sub(u, cdf_g0), denom_of(Sub(cdf_g1, cdf_g0))),
                     Sub(bins_g1, bins_g0)))

sample_gathered(bins, cdf, ig, u) ==
    sample_between(bins[ig[1] + 1], bins[ig[2] + 1], cdf[ig[1] + 1], cdf[ig[2] + 1], u)

sample_at(bins, cdf, u) == sample_gathered(bins, cdf, inds_g(cdf, u), u)

\* the samples for the cdf and the quantiles u
sample_cdf(bins, cdf, u) ==
    IF \/ ~ExpandOk(Len(bins), Len(cdf))
       \/ \E j \in 1..Len(u) : ~GatherOk(Len(cdf), inds_g(cdf, u[j]))
    THEN [raised |-> TRUE, samples |-> <<>>]
    ELSE [raised |-> FALSE,
          samples |-> Tup([j \in 1..Len(u) |-> sample_at(bins, cdf, u[j])])]

sample_pdf(bins, w, number_samples) == sample_cdf(bins, cdf_of(w), Linspace(number_samples))

RECURSIVE Insert(_, _)
Insert(s, x) ==
    IF s = <<>> THEN <<x>>
    ELSE IF Leq(x, s[1]) THEN <<x>> \o s
    ELSE <<s[1]>> \o Insert(Tail(s), x)

RECURSIVE SortFrom(_, _)
SortFrom(s, i) == IF i > Len(s) THEN <<>> ELSE Insert(SortFrom(s, i + 1), s[i])

\* torch.sort over the last axis, ascending
Sort(s) == SortFrom(s, 1)

\* slip: the sum of neighbouring depths in place of their mean
z_vals_mid_unhalved(z_vals) ==
    Tup([k \in 1..(Len(z_vals) - 1) |-> Add(z_vals[k + 1], z_vals[k])])

z_vals_mid(z_vals) ==
    Tup([k \in 1..(Len(z_vals) - 1) |-> Mul(Rat(1, 2), Add(z_vals[k + 1], z_vals[k]))])

\* slip: the drawn depths are appended without sorting
merge_depths_unsorted(z_vals, z_samples) == z_vals \o z_samples

merge_depths(z_vals, z_samples) == Sort(z_vals \o z_samples)

ray_points(ray_translation, samples_directions, z) ==
    Tup([k \in 1..Len(z) |->
        Tup([ax \in 1..3 |-> Add(IntNum(ray_translation[ax]),
                                  Mul(IntNum(samples_directions[ax]), z[k]))])])

\* [raised, ret]: ret is the pair <<z_vals, ray_samples_fine>>
fine_return(ray_translation, samples_directions, z_new) ==
    [raised |-> FALSE,
     ret    |-> <<z_new, ray_points(ray_translation, samples_directions, z_new)>>]

fine_merge(ray_translation, samples_directions, z_vals, z_samples) ==
    IF z_samples.raised THEN [raised |-> TRUE, ret |-> <<>>]
    ELSE fine_return(ray_translation, samples_directions,
                     merge_depths(z_vals, z_samples.samples))

fine_sampling(ray_translation, samples_directions, z_vals, w, number_samples) ==
    fine_merge(ray_translation, samples_directions, z_vals,
               sample_pdf(z_vals_mid(z_vals), PySlice(w, 1, -1), number_samples))

(* ---------------------------------------------------------------------- *)
(* get_rays: H, W integers, focal a number, camera_transform a 4 x 4 matrix *)
(* of integers given as the tuple of its rows                              *)
(* ---------------------------------------------------------------------- *)

\* the floating-point values that are no numbers, written n/0: 1/0, -1/0 and 0/0
Inf == [lo |-> 0, c |-> <<1>>, d |-> 0]

NegInf == [lo |-> 0, c |-> <<-1>>, d |-> 0]

NaN == [lo |-> 0, c |-> <<0>>, d |-> 0]

IsFinite(x) == x.d # 0

\* floating-point x / y for finite x and y: x / 0 is an infinity of the sign of x,
\* or nan for x = 0 (numpy warns and goes on)
FDiv(x, y) ==
    IF y # Zero THEN Div(x, y)
    ELSE IF Sign(x) > 0 THEN Inf ELSE IF Sign(x) < 0 THEN NegInf ELSE NaN

FNeg(x) == IF IsFinite(x) THEN Neg(x) ELSE IF x = Inf THEN NegInf ELSE IF x = NegInf THEN Inf ELSE NaN

\* floating-point x * y for a finite y
FMul(x, y) ==
    IF IsFinite(x) THEN Mul(x, y)
    ELSE IF x = NaN \/ y = Zero THEN NaN
    ELSE IF Sign(y) > 0 THEN x ELSE FNeg(x)

FAdd(x, y) ==
    IF IsFinite(x) /\ IsFinite(y) THEN Add(x, y)
    ELSE IF x = NaN \/ y = NaN THEN NaN
    ELSE IF IsFinite(x) THEN y
    ELSE IF IsFinite(y) \/ x = y THEN x
    ELSE NaN

RECURSIVE FSumFrom(_, _)
FSumFrom(s, i) == IF i > Len(s) THEN Zero ELSE FAdd(s[i], FSumFrom(s, i + 1))

\* the sum of a sequence of floating-point values
FSum(s) == FSumFrom(s, 1)

\* np.arange(n): empty for n <= 0
arange(n) == Tup([k \in 1..Max2(0, n) |-> IntNum(k - 1)])

\* slip: the image centre is taken at (W - 1) / 2, (H - 1) / 2
dirs_at_pixel_centre(i, j, H, W, focal) ==
    <<FDiv(Sub(i, Mul(IntNum(W - 1), Rat(1, 2))), focal),
      FNeg(FDiv(Sub(j, Mul(IntNum(H - 1), Rat(1, 2))), focal)),
      Neg(One)>>

\* the camera-space direction of the pixel in column i and row j
dirs_at(i, j, H, W, focal) ==
    <<FDiv(Sub(i, Mul(IntNum(W), Rat(1, 2))), focal),
      FNeg(FDiv(Sub(j, Mul(IntNum(H), Rat(1, 2))), focal)),
      Neg(One)>>

\* np.meshgrid(..., indexing='xy') and np.stack: row j, column i of dirs
dirs_of(cols, rows, H, W, focal) ==
    Tup([r \in 1..Len(rows) |->
        Tup([c \in 1..Len(cols) |-> dirs_at(cols[c], rows[r], H, W, focal)])])

dirs(H, W, focal) == dirs_of(arange(W), arange(H), H, W, focal)

\* slip: the sum runs over the rows of the rotation block (its transpose is applied)
rotate_transposed(d, camera_transform) ==
    Tup([r \in 1..3 |->
        FAdd(FAdd(FMul(d[1], IntNum(camera_transform[1][r])),
                  FMul(d[2], IntNum(camera_transform[2][r]))),
             FMul(d[3], IntNum(camera_transform[3][r])))])

\* np.sum(d[np.newaxis, :] * camera_transform[:3, :3], -1)
rotate(d, camera_transform) ==
    Tup([r \in 1..3 |->
        FAdd(FAdd(FMul(d[1], IntNum(camera_transform[r][1])),
                  FMul(d[2], IntNum(camera_transform[r][2]))),
             FMul(d[3], IntNum(camera_transform[r][3])))])

rays_direction(d, camera_transform) ==
    Tup([r \in 1..Len(d) |-> Tup([c \in 1..Len(d[r]) |-> rotate(d[r][c], camera_transform)])])

\* camera_transform[:3, -1]
translation(camera_transform) ==
    <<IntNum(camera_transform[1][4]), IntNum(camera_transform[2][4]),
      IntNum(camera_transform[3][4])>>

\* np.broadcast_to(camera_transform[:3, -1], np.shape(rays_direction))
rays_translation(rd, camera_transform) ==
    Tup([r \in 1..Len(rd) |-> Tup([c \in 1..Len(rd[r]) |-> translation(camera_transform)])])

get_rays_return(rd, camera_transform) == <<rays_translation(rd, camera_transform), rd>>

get_rays(H, W, focal, camera_transform) ==
    get_rays_return(rays_direction(dirs(H, W, focal), camera_transform), camera_transform)

(* ---------------------------------------------------------------------- *)
(* PositionalEncoder: an embedding function is [fn, freq], the value it    *)
(* gives a coordinate x is the term [fn, arg] with arg = x * freq          *)
(* ---------------------------------------------------------------------- *)

\* torch.pow(2, torch.linspace(0., number_frequencies - 1, number_frequencies))
freq_bands(number_frequencies) == Tup([k \in 1..number_frequencies |-> Pow2(k - 1)])

\* slip: the cosine is appended before the sine
periodic_fns_cos_first == <<"cos", "sin">>

periodic_fns == <<"sin", "cos">>

\* self.embed_fns.append(...); self.output_dim += 1
append_fn(self, fn, freq) ==
    [self EXCEPT !.embed_fns = Append(@, [fn |-> fn, freq |-> freq]),
                 !.output_dim = @ + 1]

\* the inner loop over the periodic functions, from the p-th on
RECURSIVE append_periodic(_, _, _)
append_periodic(self, freq, p) ==
    IF p > Len(periodic_fns) THEN self
    ELSE append_periodic(append_fn(self, periodic_fns[p], freq), freq, p + 1)

\* the outer loop over the frequency bands, from the k-th on
RECURSIVE append_bands(_, _, _)
append_bands(self, bands, k) ==
    IF k > Len(bands) THEN self
    ELSE append_bands(append_periodic(self, bands[k], 1), bands, k + 1)

\* the attributes set before the loops
encoder_attributes(number_frequencies, include_identity) ==
    [embed_fns |-> <<>>, output_dim |-> 0,
     number_frequencies |-> number_frequencies, include_identity |-> include_identity]

with_identity(self) == IF self.include_identity THEN append_fn(self, "identity", 1) ELSE self

\* PositionalEncoder.__init__
PositionalEncoder(number_frequencies, include_identity) ==
    append_bands(with_identity(encoder_attributes(number_frequencies, include_identity)),
                 freq_bands(number_frequencies), 1)

\* fn(coordinate), channel by channel
embed(f, coordinate) ==
    Tup([c \in 1..Len(coordinate) |-> [fn |-> f.fn, arg |-> coordinate[c] * f.freq]])

\* torch.cat over the last axis of the tensors from the k-th on
RECURSIVE cat_from(_, _)
cat_from(tensors, k) ==
    IF k > Len(tensors) THEN <<>> ELSE tensors[k] \o cat_from(tensors, k + 1)

embedded(self, coordinate) ==
    Tup([k \in 1..Len(self.embed_fns) |-> embed(self.embed_fns[k], coordinate)])

\* PositionalEncoder.encode; torch.cat raises for an empty list
encode(self, coordinate) ==
    IF Len(self.embed_fns) = 0 THEN [raised |-> TRUE, ret |-> <<>>]
    ELSE [raised |-> FALSE, ret |-> cat_from(embedded(self, coordinate), 1)]

(* ---------------------------------------------------------------------- *)
(* The warp stage of ImageWiseSolver.train, for the samples of one batch:  *)
(* ray_samples[s] and goal_vertices[v] are integer points, warp[v] the     *)
(* integer displacement of vertex v, the temperature in units of ln 2      *)
(* ---------------------------------------------------------------------- *)

\* the larger of two numbers
MaxOf2(x, y) == IF Leq(x, y) THEN y ELSE x

\* the largest entry of a non-empty sequence
RECURSIVE MaxFrom(_, _)
MaxFrom(s, k) ==
    IF k = Len(s) THEN s[k]
    ELSE MaxOf2(s[k], MaxFrom(s, k + 1))

\* torch.max(x) over the whole tensor x[s][v]
torch_max(x) == MaxFrom(Tup([s \in 1..Len(x) |-> MaxFrom(x[s], 1)]), 1)

\* exp(x - max) - exp(-max) along the row of one sample
softmax_row(row, m) ==
    Tup([v \in 1..Len(row) |-> Sub(ExpNeg(Sub(m, row[v])), ExpNeg(m))])

exp_sum(row, m) == Sum(Tup([v \in 1..Len(row) |-> ExpNeg(Sub(m, row[v]))]))

softmax_with_max(x, m) ==
    Tup([s \in 1..Len(x) |->
        Tup([v \in 1..Len(x[s]) |-> FDiv(softmax_row(x[s], m)[v], exp_sum(x[s], m))])])

\* modified_softmax: (exp(x - max) - exp(-max)) / sum of exp(x - max) over the last axis
modified_softmax(x) == softmax_with_max(x, torch_max(x))

\* torch.norm(ray_samples[s] - goal_vertices[v])
distances(ray_samples, goal_vertices) ==
    Tup([s \in 1..Len(ray_samples) |->
        Tup([v \in 1..Len(goal_vertices) |->
            TorchNorm(<<ray_samples[s][1] - goal_vertices[v][1],
                        ray_samples[s][2] - goal_vertices[v][2],
                        ray_samples[s][3] - goal_vertices[v][3]>>)])])

\* warp_temperature * relu(-(distances - warp_radius))
attentions_2(dist, warp_radius, warp_temperature) ==
    Tup([s \in 1..Len(dist) |->
        Tup([v \in 1..Len(dist[s]) |->
            Mul(warp_temperature, Relu(Neg(Sub(dist[s][v], IntNum(warp_radius)))))])])

\* (warp * attentions_3).sum(dim=-2) for one sample
warps_of(att, warp) ==
    Tup([ax \in 1..3 |-> FSum(Tup([v \in 1..Len(att) |-> FMul(att[v], IntNum(warp[v][ax]))]))])

\* ray_samples + warps
warped_samples(ray_samples, att, warp) ==
    Tup([s \in 1..Len(ray_samples) |->
        Tup([ax \in 1..3 |-> FAdd(IntNum(ray_samples[s][ax]), warps_of(att[s], warp)[ax])])])

\* goal vertices minus canonical vertices
vertex_warp_reversed(canonical_vertices, goal_vertices) ==
    Tup([v \in 1..Len(goal_vertices) |->
        Tup([ax \in 1..3 |-> goal_vertices[v][ax] - canonical_vertices[v][ax]])])

\* warp = canonical_model.vertices - goal_vertices
vertex_warp(canonical_vertices, goal_vertices) ==
    Tup([v \in 1..Len(goal_vertices) |->
        Tup([ax \in 1..3 |-> canonical_vertices[v][ax] - goal_vertices[v][ax]])])

\* the attentions of the samples for the vertices
attentions_3(ray_samples, goal_vertices, warp_radius, warp_temperature) ==
    modified_softmax(attentions_2(distances(ray_samples, goal_vertices),
                                  warp_radius, warp_temperature))

(* ---------------------------------------------------------------------- *)
(* The directions a call site of the renderer hands to the direction       *)
(* encoder and to raw2outputs, for the samples of one ray                  *)
(* ---------------------------------------------------------------------- *)

\* ray_direction[..., None, :].expand(...): the direction of the ray at each sample
expand_direction(ray_direction, n) == Tup([k \in 1..n |-> ray_direction])

\* warped_samples - rays_translation[:, None, :]
samples_minus_translation(samples, ray_translation) ==
    Tup([k \in 1..Len(samples) |->
        Tup([ax \in 1..3 |-> samples[k][ax] - ray_translation[ax]])])

\* coarse_samples_directions of the call site
coarse_samples_directions(site, samples, ray_translation, ray_direction) ==
    IF site = "AppendVerticesPipeline.forward"
    THEN expand_direction(ray_direction, Len(samples))
    ELSE samples_minus_translation(samples, ray_translation)

\* coarse_samples_directions / torch.norm(coarse_samples_directions, dim=-1, keepdim=True)
samples_directions_norm(directions) ==
    Tup([k \in 1..Len(directions) |->
        Tup([ax \in 1..3 |-> FDiv(IntNum(directions[k][ax]), TorchNorm(directions[k]))])])

\* <<the argument of direction_encoder.encode, the directions given to raw2outputs>>
site_directions(directions) == <<samples_directions_norm(directions), directions>>

(* ---------------------------------------------------------------------- *)
(* AppendVerticesPipeline.forward for one ray: the estimators are external, *)
(* their outputs are inputs; tensors that only carry the vertices are      *)
(* modelled by their number of dimensions                                  *)
(* ---------------------------------------------------------------------- *)

\* t[..., None, :] adds a dimension
index_none(dims) == dims + 1

\* t.expand(sizes) raises when fewer sizes are given than t has dimensions
expand_sizes_ok(dims, number_sizes) == number_sizes >= dims

\* the locals after the coarse pass: vertices_flat has been reshaped to 2 dimensions
\* and expanded to 3, the coarse estimator has been evaluated on the samples of
\* the ray and its output integrated
forward_coarse(raw, ray_translation, ray_direction, z_vals, args, noise) ==
    [calls             |-> <<"model_coarse", "raw2outputs">>,
     evaluated         |-> <<Len(z_vals)>>,
     vertices_flat_dim |-> IF expand_sizes_ok(index_none(2), 3) THEN 3 ELSE -1,
     ray_samples       |-> ray_points(ray_translation, ray_direction, z_vals),
     coarse            |-> raw2outputs(raw, z_vals,
                                       expand_direction(ray_direction, Len(z_vals)),
                                       args, noise)]

\* return rgb, rgb, ray_samples, densities
forward_return_coarse(l) == <<l.coarse[1], l.coarse[1], l.ray_samples, l.coarse[3]>>

\* the output of the fine estimator for n samples
model_fine(raw, n) == Tup([k \in 1..n |-> raw[((k - 1) % Len(raw)) + 1]])

\* the fine pass after fine_sampling has returned fs = <<z_vals, ray_samples_fine>>
forward_fine_integrate(fs, i, args, noise) ==
    [raised    |-> FALSE,
     calls     |-> <<"fine_sampling", "model_fine", "raw2outputs">>,
     evaluated |-> <<Len(fs[1])>>,
     fine      |-> raw2outputs(model_fine(i.raw, Len(fs[1])), fs[1],
                               expand_direction(i.ray_direction, Len(fs[1])),
                               args, noise),
     z_vals    |-> fs[1],
     ray_samples_fine |-> fs[2]]

\* the fine pass ends with an exception after the calls c
forward_raise(c) ==
    [raised |-> TRUE, calls |-> c, evaluated |-> <<>>, fine |-> <<>>,
     z_vals |-> <<>>, ray_samples_fine |-> <<>>]

\* the fine pass: fine_sampling, the expansion of vertices_flat to the fine
\* samples, the fine estimator and raw2outputs
forward_fine_after(fs, i, l, args, noise) ==
    IF fs.raised THEN forward_raise(<<>>)
    ELSE IF ~expand_sizes_ok(index_none(l.vertices_flat_dim), 3)
    THEN forward_raise(<<"fine_sampling">>)
    ELSE forward_fine_integrate(fs.ret, i, args, noise)

forward_fine(i, l, args, noise) ==
    forward_fine_after(fine_sampling(i.ray_translation, i.ray_direction, i.z_vals,
                                     l.coarse[2], args.number_fine_samples),
                       i, l, args, noise)

\* return rgb, rgb_fine, ray_samples_fine, densities
forward_return_fine(l, r) ==
    IF r.raised THEN <<>>
    ELSE <<l.coarse[1], r.fine[1], r.ray_samples_fine, r.fine[3]>>

(* ---------------------------------------------------------------------- *)
(* The tensors of the caller that were passed to a function, as they are   *)
(* when the function has ended                                             *)
(* ---------------------------------------------------------------------- *)

NoTensors == [raw |-> <<>>, z_vals |-> <<>>, weights |-> <<>>, bins |-> <<>>]

\* raw2outputs only reads raw and z_vals: every statement binds a new tensor
raw2outputs_arguments(raw, z_vals) ==
    [NoTensors EXCEPT !.raw = raw, !.z_vals = z_vals]

\* weights = weights + 1e-5 binds the local name to a new tensor
sample_pdf_arguments(bins, w) ==
    [NoTensors EXCEPT !.bins = bins, !.weights = w]

\* slip: the merged depths are written into the tensor of the caller
fine_sampling_arguments_merged(z_vals, w, returned) ==
    [NoTensors EXCEPT !.z_vals = IF returned = <<>> THEN z_vals ELSE returned[1],
                      !.weights = w]

\* torch.cat and torch.sort return new tensors, z_vals is bound to the result
\* as a local name; returned is what fine_sampling returns
fine_sampling_arguments(z_vals, w, returned) ==
    [NoTensors EXCEPT !.z_vals = z_vals, !.weights = w]

\* the tensors of the batch after the fine pass of forward, which hands
\* z_vals to fine_sampling
forward_fine_arguments(c, i, l, args) ==
    [c EXCEPT !.z_vals =
        fine_sampling_arguments(c.z_vals, l.coarse[2],
            fine_sampling(i.ray_translation, i.ray_direction, c.z_vals,
                          l.coarse[2], args.number_fine_samples).ret).z_vals]

(* ---------------------------------------------------------------------- *)
(* NerfSolver.train and Solver.train: the loops over epochs and iterations, *)
(* the mode of the two models and the lengths of the histories; the        *)
(* rendering pipeline and the losses are outside                           *)
(* ---------------------------------------------------------------------- *)

\* the locals and histories after _reset_histories; a torch module is in
\* training mode when it is constructed
train_begin ==
    [at |-> "epoch", epoch |-> 0, i |-> 0,
     training |-> [model_coarse |-> TRUE, model_fine |-> TRUE],
     event |-> [kind |-> "none"],
     train_loss_history |-> 0, train_loss_history_per_iter |-> 0,
     val_loss_history |-> 0]

\* model_coarse.train(); model_fine.train() or model_coarse.eval(); model_fine.eval()
set_mode(mode) == [model_coarse |-> mode, model_fine |-> mode]

\* an optimizer step or a validation pass, with the mode the models are in
event_of(kind, training) == [kind |-> kind, training |-> training]

\* the head of the epoch loop: both models into training mode
train_epoch(l) ==
    [l EXCEPT !.at = "step", !.i = 0, !.training = set_mode(TRUE)]

\* the pipeline, loss.backward() and optim.step() of iteration i
train_step(l) ==
    [l EXCEPT !.at = "log", !.event = event_of("optim.step", l.training)]

\* i % log raises ZeroDivisionError for log = 0
modulo_ok(log) == log # 0

\* if i % log == log - 1
logs_now(i, log) == i % log = log - 1

\* the in-epoch validation of NerfSolver.train: eval mode and a validation pass
early_validation(l) ==
    [l EXCEPT !.training = set_mode(FALSE),
              !.event = event_of("validation", set_mode(FALSE))]

\* the end of the body of the iteration: the loss is appended to the history
iteration_end(l, iter_per_epoch) ==
    [l EXCEPT !.at = IF l.i + 1 < iter_per_epoch THEN "step" ELSE "validate",
              !.i = l.i + 1,
              !.train_loss_history_per_iter = @ + 1]

\* the rest of the iteration after optim.step()
train_log(l, i) ==
    iteration_end(IF logs_now(l.i, i.log) /\ i.early_validation
                  THEN early_validation(l) ELSE l,
                  i.iter_per_epoch)

\* the end of the epoch: the mean loss is appended, the models are put into
\* eval mode, the validation pass runs and its loss is appended
train_validate(l) ==
    [l EXCEPT !.at = "epoch", !.epoch = l.epoch + 1,
              !.training = set_mode(FALSE),
              !.event = event_of("validation", set_mode(FALSE)),
              !.train_loss_history = @ + 1,
              !.val_loss_history = @ + 1]

(* ---------------------------------------------------------------------- *)
(* disjoint_indices: indices are integers, ratio is the fraction            *)
(* ratio[1] / ratio[2]                                                      *)
(* ---------------------------------------------------------------------- *)

\* np.arange(size) as an index array
arange_indices(size) == Tup([i \in 1..Max2(size, 0) |-> i - 1])

\* int(size * ratio) for size * ratio >= 0
split_index(size, ratio) == (size * ratio[1]) \div ratio[2]

\* the entries of an index array
Entries(a) == {a[i] : i \in 1..Len(a)}

\* the outcomes of np.random.choice(a, k, replace=False): k entries of a at
\* different positions, in any order
random_choice(a, k) ==
    {Tup([i \in 1..k |-> a[f[i]]]) :
        f \in {g \in [1..k -> 1..Len(a)] : \A i, j \in 1..k : g[i] = g[j] => i = j}}

RECURSIVE setdiff_from(_, _, _)
setdiff_from(a, b, i) ==
    IF i > Len(a) THEN <<>>
    ELSE (IF a[i] \in Entries(b) THEN <<>> ELSE <<a[i]>>) \o setdiff_from(a, b, i + 1)

\* nothing is removed
setdiff1d_keeps_all(a, b) == a

\* np.setdiff1d(a, b, assume_unique=True) for a sorted a: the entries of a that
\* are not in b, in their order
setdiff1d(a, b) == setdiff_from(a, b, 1)

\* the return value for the draw train_indices
disjoint_random(size, train_indices) ==
    <<train_indices, setdiff1d(arange_indices(size), train_indices)>>

\* the return value for random = False
disjoint_split(indices, split) ==
    <<SubSeq(indices, 1, split), SubSeq(indices, split + 1, Len(indices))>>

\* the values disjoint_indices can return
disjoint_indices(size, ratio, random) ==
    IF random
    THEN {disjoint_random(size, t) :
             t \in random_choice(arange_indices(size), split_index(size, ratio))}
    ELSE {disjoint_split(arange_indices(size), split_index(size, ratio))}

(* ---------------------------------------------------------------------- *)
(* Inputs                                                                  *)
(* ---------------------------------------------------------------------- *)

\* samples per ray in a call of raw2outputs
MaxSamples == 3

\* coarse samples per ray in a call of fine_sampling
MaxCoarse == 4

\* args.number_fine_samples
MaxFineSamples == 3

\* bins of the PDF in a call of sample_pdf
MaxBins == 3

\* non-decreasing depths: the first depth and the steps between neighbours
DepthsFrom(z0, steps) ==
    Tup([k \in 1..(Len(steps) + 1) |->
        IntNum(z0 + Cardinality({j \in 1..(k - 1) : steps[j] = 1}))])

\* evenly spaced depths, and the same with the first two samples at one depth
CoarseDepths(n) ==
    {DepthsFrom(2, [k \in 1..(n - 1) |-> 1]),
     DepthsFrom(2, [k \in 1..(n - 1) |-> IF k = 1 THEN 0 ELSE 1])}

\* every non-decreasing depth sequence with steps 0 or 1
SortedDepths(n) == {DepthsFrom(2, st) : st \in [1..(n - 1) -> {0, 1}]}

\* raw densities: negative, moderate, and one that makes a sample opaque; the noise
\* moves the first two onto 0
SigmaValues == {IntNum(-1), One, Big}

\* colour logits of a sample: saturated low, saturated high, mixed
ColourValues == {<<Neg(Big), Neg(Big), Neg(Big)>>, <<Big, Big, Big>>, <<Zero, One, IntNum(-1)>>}

\* raw network outputs: the colour is one logit triple per ray, rotated along the samples
RawOutputs(n) ==
    {Tup([k \in 1..n |->
        <<col[((k - 1) % 3) + 1], col[(k % 3) + 1], col[((k + 1) % 3) + 1], sg[k]>>]) :
        col \in ColourValues, sg \in [1..n -> SigmaValues]}

RayDirections == {<<0, 0, -1>>, <<2, 1, -2>>, <<0, 0, 0>>}

\* per-sample directions: the direction of the ray at every sample
Directions(n) == {Tup([k \in 1..n |-> v]) : v \in RayDirections}

\* configurations: every number of fine samples, and with them every combination of
\* noise and background
Args ==
    {[sigma_noise_std     |-> IF m % 2 = 1 THEN One ELSE Zero,
      white_background    |-> (m \div 2) % 2 = 1,
      number_fine_samples |-> m] : m \in 0..MaxFineSamples}

\* draws of torch.normal
Noises(n) ==
    {Tup([k \in 1..n |-> IF k % 2 = 1 THEN IntNum(s) ELSE IntNum(-s)]) : s \in {-1, 1}}

NoNoise(n) == Tup([k \in 1..n |-> Zero])

WeightValues == {Zero, Rat(1, 2), One}

\* weights of the coarse samples: any value at the inner samples, and 0 or 1 at
\* both ends
CoarseWeights(n) ==
    {Tup([k \in 1..n |-> IF k = 1 \/ k = n THEN e ELSE w[k]]) :
        e \in {Zero, One}, w \in [1..n -> WeightValues]}

\* weights[..., 1:-1] of n + 2 coarse samples
BinWeights(n) == {Tup(w) : w \in [1..n -> WeightValues]}

\* the midpoints of n + 2 coarse depths
BinEdges(n) == {z_vals_mid(z) : z \in CoarseDepths(n + 2)}

\* image height and width in a call of get_rays
MaxSize == 4

\* heights and widths, those of no image included
Sizes == (-1)..MaxSize

Focals == {IntNum(-1), Zero, One, IntNum(2)}

\* camera poses: no rotation at the origin, and a quarter turn about the z and about
\* the x axis away from it
Poses ==
    {<<<<1, 0, 0, 0>>, <<0, 1, 0, 0>>, <<0, 0, 1, 0>>, <<0, 0, 0, 1>>>>,
     <<<<0, -1, 0, 1>>, <<1, 0, 0, 2>>, <<0, 0, 1, 3>>, <<0, 0, 0, 1>>>>,
     <<<<1, 0, 0, 1>>, <<0, 0, -1, 2>>, <<0, 1, 0, 3>>, <<0, 0, 0, 1>>>>}

\* frequencies of an encoder, and channels of the coordinate it encodes
MaxFrequencies == 2

MaxChannels == 2

CoordinateValues == {-1, 3}

Coordinates == UNION {[1..c -> CoordinateValues] : c \in 1..MaxChannels}

\* the samples of a batch: at a vertex, at the distance 2 from both vertices, and
\* far away
MaxWarpSamples == 2

SamplePoints == {<<0, 0, 0>>, <<2, 0, 0>>, <<4, 3, 0>>}

RaySamples == UNION {[1..n -> SamplePoints] : n \in 1..MaxWarpSamples}

\* the vertices of the target pose
GoalVertices == {<< <<0, 0, 0>> >>, << <<0, 0, 0>>, <<4, 0, 0>> >>}

\* the displacements of the vertices: none, or one per vertex
Displacements(n) ==
    {[v \in 1..n |-> <<0, 0, 0>>], [v \in 1..n |-> <<v, 0 - 1, 2 * v>>]}

\* the vertices of the canonical pose: the goal vertices, displaced
CanonicalVertices(goal_vertices) ==
    {Tup([v \in 1..Len(goal_vertices) |->
         Tup([ax \in 1..3 |-> goal_vertices[v][ax] + d[v][ax]])]) :
        d \in Displacements(Len(goal_vertices))}

WarpRadii == {1, 2}

\* the default of num_epochs in Solver.train
DefaultNumEpochs == 10

\* epochs of NerfSolver.train and batches of the training loader
MaxEpochs == 2

MaxIterations == 2

\* the calls of train: Solver.train with the default number of epochs and
\* log_nth its default 0 or not, NerfSolver.train with the configured values
TrainCalls ==
    {[fn |-> "Solver.train", num_epochs |-> DefaultNumEpochs, log |-> n,
      early_validation |-> FALSE, iter_per_epoch |-> it] :
        n \in 0..2, it \in 1..MaxIterations}
    \cup
    {[fn |-> "NerfSolver.train", num_epochs |-> e, log |-> n,
      early_validation |-> v, iter_per_epoch |-> it] :
        e \in 1..MaxEpochs, n \in 1..2, v \in BOOLEAN, it \in 1..MaxIterations}

\* outputs of an estimator for a ray through empty space: any colour, and a
\* negative raw density at every sample (the weights are then 0 and the
\* resampling is uniform)
EstimatorOutputs(n) ==
    {raw \in RawOutputs(n) : \A k \in 1..n : raw[k][4] = IntNum(-1)}

\* the draws of torch.normal for n samples under the configuration a
NoiseDraws(a, n) == IF Sign(a.sigma_noise_std) > 0 THEN Noises(n) ELSE {NoNoise(n)}

\* the call sites of raw2outputs
CallSites == {"AppendVerticesPipeline.forward", "ImageWiseSolver.train"}

\* rays: origins and directions of integer norm, and integer depths of the samples
RayTranslations == {<<0, 0, 0>>, <<1, 2, 3>>}

SiteDirections == {<<0, 0, -1>>, <<2, 1, -2>>}

MaxSiteSamples == 2

SiteDepths == UNION {[1..n -> {2, 3}] : n \in 1..MaxSiteSamples}

\* the sample points ray_translation + z * ray_direction
SitePoints(ray_translation, ray_direction, z) ==
    Tup([k \in 1..Len(z) |->
        Tup([ax \in 1..3 |-> ray_translation[ax] + z[k] * ray_direction[ax]])])

\* dataset sizes and train/validation ratios as numerator and denominator
MaxIndices == 4

Ratios == {<<0, 1>>, <<1, 3>>, <<1, 2>>, <<1, 1>>}

\* in units of ln 2
WarpTemperatures == {Zero, One, Big}

(* ---------------------------------------------------------------------- *)
(* State machine: the configuration, and a call of one of the functions on *)
(* one ray                                                                 *)
(* ---------------------------------------------------------------------- *)

VARIABLES args, pc, in, loc, ret, raised, encoder, caller

vars == <<args, pc, in, loc, ret, raised, encoder, caller>>

NoCall == [fn |-> "none"]

NoEncoder == [embed_fns |-> <<>>, output_dim |-> -1]

Init ==
    /\ args \in Args
    /\ pc = "idle"
    /\ in = NoCall
    /\ loc = <<>>
    /\ ret = <<>>
    /\ raised = FALSE
    /\ encoder = NoEncoder
    /\ caller = NoTensors

\* the call ends with the value r.ret or with the exception r.raised
Returns(r) == ret' = r.ret /\ raised' = r.raised

\* sample_pdf ends with its one value r.samples or with the exception r.raised
SamplesReturned(r) == ret' = (IF r.raised THEN <<>> ELSE <<r.samples>>) /\ raised' = r.raised

CallRaw2Outputs ==
    /\ pc = "idle"
    /\ \E n \in 1..MaxSamples :
       \E raw \in RawOutputs(n), z \in CoarseDepths(n), sd \in Directions(n) :
       \E ns \in (IF Sign(args.sigma_noise_std) > 0 THEN Noises(n) ELSE {NoNoise(n)}) :
       /\ in' = [fn |-> "raw2outputs", raw |-> raw, z_vals |-> z,
                 samples_directions |-> sd, noise |-> ns]
       /\ loc' = raw2outputs_locals(raw, z, sd, args, ns)
       /\ ret' = raw2outputs_return(z, loc')
       /\ caller' = raw2outputs_arguments(raw, z)
    /\ raised' = FALSE
    /\ pc' = "returned"
    /\ UNCHANGED <<args, encoder>>

CallFineSampling ==
    /\ pc = "idle"
    /\ \E n \in 1..MaxCoarse :
       \E z \in SortedDepths(n), w \in CoarseWeights(n), d \in {<<0, 0, -1>>, <<2, 1, -2>>} :
       /\ in' = [fn |-> "fine_sampling", ray_translation |-> <<0, 0, 2>>,
                 samples_directions |-> d, z_vals |-> z, weights |-> w,
                 number_samples |-> args.number_fine_samples]
       /\ Returns(fine_sampling(<<0, 0, 2>>, d, z, w, args.number_fine_samples))
       /\ caller' = fine_sampling_arguments(z, w, ret')
    /\ loc' = <<>>
    /\ pc' = "returned"
    /\ UNCHANGED <<args, encoder>>

\* the call of sample_pdf that fine_sampling makes for n + 2 coarse samples
CallSamplePdf ==
    /\ pc = "idle"
    /\ \E n \in 0..MaxBins :
       \E bins \in BinEdges(n), w \in BinWeights(n) :
       /\ in' = [fn |-> "sample_pdf", bins |-> bins, weights |-> w,
                 number_samples |-> args.number_fine_samples]
       /\ SamplesReturned(sample_pdf(bins, w, args.number_fine_samples))
       /\ caller' = sample_pdf_arguments(bins, w)
    /\ loc' = <<>>
    /\ pc' = "returned"
    /\ UNCHANGED <<args, encoder>>

\* the call of get_rays for one image
CallGetRays ==
    /\ pc = "idle"
    /\ \E H \in Sizes, W \in Sizes, focal \in Focals, camera_transform \in Poses :
       /\ in' = [fn |-> "get_rays", H |-> H, W |-> W, focal |-> focal,
                 camera_transform |-> camera_transform]
       /\ ret' = get_rays(H, W, focal, camera_transform)
    /\ raised' = FALSE
    /\ loc' = <<>>
    /\ pc' = "returned"
    /\ UNCHANGED <<args, encoder, caller>>

\* the warp stage of one training step, for the samples of the batch
CallWarp ==
    /\ pc = "idle"
    /\ \E ray_samples \in RaySamples, goal_vertices \in GoalVertices,
          warp_radius \in WarpRadii, warp_temperature \in WarpTemperatures :
       \E canonical_vertices \in CanonicalVertices(goal_vertices) :
          /\ in' = [fn |-> "warp", ray_samples |-> ray_samples,
                    canonical_vertices |-> canonical_vertices,
                    goal_vertices |-> goal_vertices,
                    warp |-> vertex_warp(canonical_vertices, goal_vertices),
                    warp_radius |-> warp_radius,
                    warp_temperature |-> warp_temperature]
          /\ loc' = [attentions_3 |-> attentions_3(ray_samples, goal_vertices,
                                                   warp_radius, warp_temperature)]
          /\ ret' = warped_samples(ray_samples, loc'.attentions_3, in'.warp)
    /\ raised' = FALSE
    /\ pc' = "returned"
    /\ UNCHANGED <<args, encoder, caller>>

\* a call site computes the directions of the samples of a ray
CallSiteDirections ==
    /\ pc = "idle"
    /\ \E site \in CallSites, ray_translation \in RayTranslations,
          ray_direction \in SiteDirections, z_vals \in SiteDepths :
       /\ in' = [fn |-> "directions", site |-> site,
                 ray_samples |-> SitePoints(ray_translation, ray_direction, z_vals),
                 ray_translation |-> ray_translation,
                 ray_direction |-> ray_direction, z_vals |-> z_vals]
       /\ ret' = site_directions(coarse_samples_directions(site, in'.ray_samples,
                                      ray_translation, ray_direction))
    /\ raised' = FALSE
    /\ loc' = <<>>
    /\ pc' = "returned"
    /\ UNCHANGED <<args, encoder, caller>>

\* AppendVerticesPipeline.forward up to the test of run_fine
ForwardCoarse ==
    /\ pc = "idle"
    /\ \E n \in 1..MaxSamples, run_fine \in BOOLEAN :
       \E raw \in EstimatorOutputs(n), z \in CoarseDepths(n),
          d \in SiteDirections, ns \in NoiseDraws(args, n) :
       /\ in' = [fn |-> "forward", run_fine |-> run_fine, raw |-> raw,
                 ray_translation |-> <<0, 0, 2>>, ray_direction |-> d,
                 z_vals |-> z, noise |-> ns]
       /\ loc' = forward_coarse(raw, <<0, 0, 2>>, d, z, args, ns)
       /\ caller' = raw2outputs_arguments(raw, z)
    /\ ret' = <<>>
    /\ raised' = FALSE
    /\ pc' = "forward"
    /\ UNCHANGED <<args, encoder>>

\* run_fine is false: the coarse colour is returned twice
ForwardReturnCoarse ==
    /\ pc = "forward"
    /\ ~in.run_fine
    /\ ret' = forward_return_coarse(loc)
    /\ pc' = "returned"
    /\ UNCHANGED <<args, in, loc, raised, encoder, caller>>

\* the fine pass ends as r says
ForwardFineEnds(r) ==
    /\ loc' = [loc EXCEPT !.calls = @ \o r.calls, !.evaluated = @ \o r.evaluated]
    /\ ret' = forward_return_fine(loc, r)
    /\ raised' = r.raised

\* run_fine is true: the rest of forward
ForwardFine ==
    /\ pc = "forward"
    /\ in.run_fine
    /\ \E ns \in NoiseDraws(args, Len(in.z_vals) + args.number_fine_samples) :
          ForwardFineEnds(forward_fine(in, loc, args, ns))
    /\ caller' = forward_fine_arguments(caller, in, loc, args)
    /\ pc' = "returned"
    /\ UNCHANGED <<args, in, encoder>>

\* train is called
Train ==
    /\ pc = "idle"
    /\ in' \in TrainCalls
    /\ loc' = train_begin
    /\ pc' = "train"
    /\ UNCHANGED <<args, ret, raised, encoder, caller>>

\* the next epoch begins
TrainEpoch ==
    /\ pc = "train" /\ loc.at = "epoch"
    /\ loc.epoch < in.num_epochs
    /\ loc' = train_epoch(loc)
    /\ UNCHANGED <<args, pc, in, ret, raised, encoder, caller>>

\* the optimizer step of an iteration
TrainStep ==
    /\ pc = "train" /\ loc.at = "step"
    /\ loc' = train_step(loc)
    /\ UNCHANGED <<args, pc, in, ret, raised, encoder, caller>>

\* the rest of the iteration: the test for logging, which raises for log = 0
TrainLog ==
    /\ pc = "train" /\ loc.at = "log"
    /\ IF modulo_ok(in.log)
       THEN loc' = train_log(loc, in) /\ UNCHANGED <<pc, raised>>
       ELSE raised' = TRUE /\ pc' = "returned" /\ UNCHANGED loc
    /\ UNCHANGED <<args, in, ret, encoder, caller>>

\* the validation at the end of the epoch
TrainValidate ==
    /\ pc = "train" /\ loc.at = "validate"
    /\ loc' = train_validate(loc)
    /\ UNCHANGED <<args, pc, in, ret, raised, encoder, caller>>

\* train returns after the last epoch
TrainFinish ==
    /\ pc = "train" /\ loc.at = "epoch"
    /\ loc.epoch >= in.num_epochs
    /\ pc' = "returned"
    /\ UNCHANGED <<args, in, loc, ret, raised, encoder, caller>>

\* a call of disjoint_indices; np.random.choice on an empty population depends
\* on the numpy version and is left out
CallDisjointIndices ==
    /\ pc = "idle"
    /\ \E size \in 0..MaxIndices, ratio \in Ratios, random \in BOOLEAN :
       /\ random => size >= 1
       /\ in' = [fn |-> "disjoint_indices", size |-> size, ratio |-> ratio,
                 random |-> random]
       /\ ret' \in disjoint_indices(size, ratio, random)
    /\ raised' = FALSE
    /\ loc' = <<>>
    /\ pc' = "returned"
    /\ UNCHANGED <<args, encoder, caller>>

\* an encoder is constructed
NewPositionalEncoder ==
    /\ pc = "idle"
    /\ \E number_frequencies \in 0..MaxFrequencies, include_identity \in BOOLEAN :
       encoder' = PositionalEncoder(number_frequencies, include_identity)
    /\ pc' = "encoder"
    /\ UNCHANGED <<args, in, loc, ret, raised, caller>>

\* encode ends with the value r.ret or with the exception r.raised
Encoded(r) == ret' = r.ret /\ raised' = r.raised

\* a call of encode on the encoder, the first or a later one
CallEncode ==
    /\ pc = "encoder"
    /\ \E coordinate \in Coordinates :
       /\ in' = [fn |-> "encode", coordinate |-> Tup(coordinate)]
       /\ Encoded(encode(encoder, Tup(coordinate)))
    /\ UNCHANGED <<args, pc, loc, encoder, caller>>

\* the encoder is dropped
DropEncoder ==
    /\ pc = "encoder"
    /\ pc' = "idle"
    /\ in' = NoCall
    /\ ret' = <<>>
    /\ raised' = FALSE
    /\ encoder' = NoEncoder
    /\ UNCHANGED <<args, loc, caller>>

Return ==
    /\ pc = "returned"
    /\ pc' = "idle"
    /\ in' = NoCall
    /\ loc' = <<>>
    /\ ret' = <<>>
    /\ raised' = FALSE
    /\ caller' = NoTensors
    /\ UNCHANGED <<args, encoder>>

Next ==
    \/ CallRaw2Outputs
    \/ CallFineSampling
    \/ CallSamplePdf
    \/ CallGetRays
    \/ CallWarp
    \/ CallDisjointIndices
    \/ CallSiteDirections
    \/ ForwardCoarse
    \/ ForwardReturnCoarse
    \/ ForwardFine
    \/ Train
    \/ TrainEpoch
    \/ TrainStep
    \/ TrainLog
    \/ TrainValidate
    \/ TrainFinish
    \/ Return
    \/ NewPositionalEncoder
    \/ CallEncode
    \/ DropEncoder

Spec == Init /\ [][Next]_vars

(* ---------------------------------------------------------------------- *)
(* Properties of raw2outputs                                               *)
(* ---------------------------------------------------------------------- *)

\* raw2outputs has returned / has returned for a ray of at least two samples
R2O == pc = "returned" /\ in.fn = "raw2outputs"

R2OMulti == R2O /\ Len(in.z_vals) >= 2

\* 1e-6 = 10^4 * 1e-10
Tol == EpsPow(10000, 1)

\* the density the network output and the drawn noise give sample k
NoisySigma(k) ==
    Add(in.raw[k][4], IF Sign(args.sigma_noise_std) > 0 THEN in.noise[k] ELSE Zero)

Between(lo, x, hi) == Leq(lo, x) /\ Leq(x, hi)

\* C1: for a ray of N >= 2 samples with non-decreasing depths, any raw densities and
\* any direction, every returned weight is >= 0 and the weights sum to at most
\* 1 + 1e-6.
C1_WeightsBounded ==
    R2OMulti =>
        /\ \A k \in 1..Len(ret[2]) : Sign(ret[2][k]) >= 0
        /\ Leq(Sum(ret[2]), Add(One, Tol))

\* a ray with a negative and a positive raw density whose weights sum to more than 1
C1_Witness ==
    /\ R2OMulti
    /\ \E k \in 1..Len(in.raw) : Sign(in.raw[k][4]) < 0
    /\ \E k \in 1..Len(in.raw) : Sign(in.raw[k][4]) > 0
    /\ Less(One, Sum(ret[2]))

RECURSIVE TransmittanceBefore(_, _)
TransmittanceBefore(alpha, k) ==
    IF k <= 1 THEN One
    ELSE Mul(TransmittanceBefore(alpha, k - 1), Add(Sub(One, alpha[k - 1]), Eps))

\* C2: for N >= 2, weight[k] = alpha[k] * product over m < k of (1 - alpha[m] + 1e-10):
\* the product is exclusive, weight[0] = alpha[0], and alpha[k] is no factor of the
\* transmittance of sample k.
C2_ExclusiveProduct ==
    R2OMulti =>
        /\ ret[2][1] = ret[3][1]
        /\ \A k \in 1..Len(ret[2]) :
              ret[2][k] = Mul(ret[3][k], TransmittanceBefore(ret[3], k))

\* three samples, the first two partly opaque, the third with a weight
C2_Witness ==
    /\ R2OMulti
    /\ Len(ret[2]) >= 3
    /\ \A k \in 1..2 : Less(Zero, ret[3][k]) /\ Less(ret[3][k], One)
    /\ Sign(ret[2][3]) > 0

\* C3, as claimed: raw2outputs returns the colour, the weights, the depth
\* (sum of weight * z_vals) and the accumulated opacity (sum of weight).
C3_ReturnsDepthAndOpacity ==
    R2OMulti =>
        /\ Len(ret) = 4
        /\ ret[3] = loc.depth_map
        /\ ret[4] = loc.acc_map

\* C3, amended: raw2outputs returns three values, the composited colour, the
\* per-sample weights and the per-sample opacities alpha; the depth (sum of
\* weight * z_vals) and the accumulated opacity (sum of weight) are computed and
\* not returned.
C3_ReturnsColourWeightsAlpha ==
    R2OMulti =>
        /\ Len(ret) = 3
        /\ ret[1] = [ch \in 1..3 |->
                Add(Sum(Tup([k \in 1..Len(in.raw) |->
                        Mul(loc.weights[k], Sigmoid(in.raw[k][ch]))])),
                    IF args.white_background THEN Sub(One, loc.acc_map) ELSE Zero)]
        /\ ret[2] = loc.weights
        /\ ret[3] = loc.density
        /\ loc.depth_map = Sum(Tup([k \in 1..Len(ret[2]) |-> Mul(ret[2][k], in.z_vals[k])]))
        /\ loc.acc_map = Sum(ret[2])

\* a ray with some opacity, whose weights differ from its alphas
C3_Witness ==
    /\ R2OMulti
    /\ args.white_background
    /\ Sign(loc.acc_map) > 0
    /\ ret[2] # ret[3]
    /\ loc.depth_map # loc.acc_map

\* C4: for N >= 2 and no noise, raw densities <= 0 at every sample give weights 0
\* and opacity 0, and with white_background the colour (1,1,1) whatever the raw
\* colours.
C4_EmptyRay ==
    (/\ R2OMulti
     /\ args.sigma_noise_std = Zero
     /\ \A k \in 1..Len(in.raw) : Sign(in.raw[k][4]) <= 0)
    => /\ \A k \in 1..Len(ret[2]) : ret[2][k] = Zero
       /\ loc.acc_map = Zero
       /\ args.white_background => ret[1] = <<One, One, One>>

\* an empty ray on a white background whose raw colours are saturated low
C4_Witness ==
    /\ R2OMulti
    /\ args.sigma_noise_std = Zero
    /\ args.white_background
    /\ \A k \in 1..Len(in.raw) : Sign(in.raw[k][4]) <= 0
    /\ \E k \in 1..Len(in.raw) : Sign(in.raw[k][4]) < 0
    /\ in.raw[1][1] = Neg(Big)
    /\ ret[1] = <<One, One, One>>

\* C5: for N >= 2, a fully opaque first sample (alpha[0] = 1) gives weight[0] = 1,
\* every later weight between 0 and 2e-10, and an opacity within 1e-6 of 1.
C5_OpaqueFirstSample ==
    (R2OMulti /\ ret[3][1] = One)
    => /\ ret[2][1] = One
       /\ \A k \in 2..Len(ret[2]) : Between(Zero, ret[2][k], EpsPow(2, 1))
       /\ Between(Sub(One, Tol), loc.acc_map, Add(One, Tol))

\* an opaque first sample followed by a sample that still gets a weight
C5_Witness ==
    /\ R2OMulti
    /\ ret[3][1] = One
    /\ \E k \in 2..Len(ret[2]) : Sign(ret[2][k]) > 0

\* C6: alpha[k] = 1 - exp(-relu(sigma_raw[k] + noise) * dists[k]): it is exactly 0
\* whenever sigma_raw[k] + noise <= 0, and it lies in [0, 1].
C6_AlphaClamped ==
    R2OMulti =>
        \A k \in 1..Len(ret[3]) :
            /\ ret[3][k] = Sub(One, ExpNeg(Mul(Relu(NoisySigma(k)), loc.dists[k])))
            /\ Sign(NoisySigma(k)) <= 0 => ret[3][k] = Zero
            /\ Between(Zero, ret[3][k], One)

\* noise takes a positive raw density to zero or below, next to a partly opaque sample
C6_Witness ==
    /\ R2OMulti
    /\ Sign(args.sigma_noise_std) > 0
    /\ \E k \in 1..Len(ret[3]) :
          Sign(in.raw[k][4]) > 0 /\ Sign(NoisySigma(k)) <= 0 /\ Sign(loc.dists[k]) > 0
    /\ \E k \in 1..Len(ret[3]) : Less(Zero, ret[3][k]) /\ Less(ret[3][k], One)

IntervalsOf(z_vals, samples_directions) ==
    [k \in 1..Len(z_vals) |->
        Mul(IF k < Len(z_vals) THEN Sub(z_vals[k + 1], z_vals[k]) ELSE Big,
            TorchNorm(samples_directions[k]))]

\* C7, as claimed: the interval vector has exactly N entries, dists[k] =
\* (z_vals[k+1] - z_vals[k]) * norm(direction) for k < N-1 and dists[N-1] =
\* 1e10 * norm(direction).
C7_IntervalsForEveryRay ==
    R2O => loc.dists = IntervalsOf(in.z_vals, in.samples_directions)

\* C7, amended: for N >= 2 the interval vector has exactly N entries, dists[k] =
\* (z_vals[k+1] - z_vals[k]) * norm(direction) for k < N-1 and dists[N-1] =
\* 1e10 * norm(direction); for N = 1 it is empty.
C7_IntervalsForTwoOrMore ==
    R2O => loc.dists = (IF Len(in.z_vals) >= 2
                        THEN IntervalsOf(in.z_vals, in.samples_directions)
                        ELSE <<>>)

\* a direction of norm 3 stretches a depth step of 1 to an interval of 3
C7_Witness ==
    /\ R2OMulti
    /\ in.samples_directions[1] = <<2, 1, -2>>
    /\ Sub(in.z_vals[2], in.z_vals[1]) = One
    /\ loc.dists[1] = IntNum(3)
    /\ loc.dists[Len(in.z_vals)] = EpsPow(3, -1)

\* C8: with exactly one sample, raw2outputs returns the sigmoid of that sample's raw
\* colour and the weight 1, whatever sigma_raw, z_vals, the direction,
\* sigma_noise_std and white_background are.
C8_SingleSample ==
    (R2O /\ Len(in.z_vals) = 1)
    => /\ ret[1] = <<Sigmoid(in.raw[1][1]), Sigmoid(in.raw[1][2]), Sigmoid(in.raw[1][3])>>
       /\ ret[2] = <<One>>

\* one dense sample, with noise and a white background configured
C8_Witness ==
    /\ R2O
    /\ Len(in.z_vals) = 1
    /\ args.white_background
    /\ Sign(args.sigma_noise_std) > 0
    /\ in.raw[1][4] = Big
    /\ in.raw[1][1] = Zero

FS == pc = "returned" /\ in.fn = "fine_sampling"

IsSorted(s) == \A k \in 1..(Len(s) - 1) : Leq(s[k], s[k + 1])

\* C10: for N >= 2 sorted coarse depths and any M >= 0, fine_sampling returns exactly
\* N + M depths, sorted ascending.
C10_MergedCountAndOrder ==
    (FS /\ Len(in.z_vals) >= 2)
    => /\ ~raised
       /\ Len(ret[1]) = Len(in.z_vals) + in.number_samples
       /\ IsSorted(ret[1])

\* fine_sampling has returned its pair (it did not raise)
FSReturned == FS /\ ~raised

\* the bin edges, the weights and the depths sample_pdf was called with / drew
Bins == z_vals_mid(in.z_vals)

InnerWeights == PySlice(in.weights, 1, -1)

Drawn == sample_pdf(Bins, InnerWeights, in.number_samples).samples

\* every depth of d lies between the first and the last entry of s
AllWithin(d, s) == \A j \in 1..Len(d) : Between(s[1], d[j], s[Len(s)])

\* C11: whenever fine_sampling returns for sorted coarse depths and non-negative
\* weights, every drawn depth lies between the first and the last midpoint, hence in
\* [min(z_vals), max(z_vals)], and the minimum and maximum of the merged depths are
\* those of z_vals; the quantiles u = 0 and u = 1 included.
C11_DrawnWithinRange ==
    FSReturned =>
        /\ AllWithin(Drawn, Bins)
        /\ AllWithin(Drawn, in.z_vals)
        /\ \A k \in 1..Len(ret[1]) :
              Between(in.z_vals[1], ret[1][k], in.z_vals[Len(in.z_vals)])
        /\ \E k \in 1..Len(ret[1]) : ret[1][k] = in.z_vals[1]
        /\ \E k \in 1..Len(ret[1]) : ret[1][k] = in.z_vals[Len(in.z_vals)]

\* three or more draws, the first at the first midpoint (u = 0) and the last at the
\* last midpoint (u = 1), from weights that are not all equal
C11_Witness ==
    /\ FSReturned
    /\ Len(in.z_vals) >= 4
    /\ in.number_samples >= 3
    /\ Less(in.z_vals[1], in.z_vals[Len(in.z_vals)])
    /\ \E k \in 1..(Len(InnerWeights) - 1) : InnerWeights[k] # InnerWeights[k + 1]
    /\ Drawn[1] = Bins[1]
    /\ Drawn[Len(Drawn)] = Bins[Len(Bins)]

StrictlyIncreasing(s) == \A k \in 1..(Len(s) - 1) : Less(s[k], s[k + 1])

\* how often the depth x occurs in s
Occurrences(s, x) == Cardinality({k \in 1..Len(s) : s[k] = x})

\* C12: whenever fine_sampling returns for strictly increasing coarse depths, the
\* merged depths are strictly increasing: no two of them are equal.
C12_MergedStrictlyIncreasing ==
    (FSReturned /\ StrictlyIncreasing(in.z_vals)) => StrictlyIncreasing(ret[1])

\* C12, amended: whenever fine_sampling returns for strictly increasing coarse depths,
\* the merged depths are the coarse and the drawn depths together, each as often as it
\* occurs among them, in non-decreasing order.
C12_MergedNonDecreasing ==
    (FSReturned /\ StrictlyIncreasing(in.z_vals)) =>
        /\ IsSorted(ret[1])
        /\ \A k \in 1..Len(ret[1]) :
              Occurrences(ret[1], ret[1][k])
                  = Occurrences(in.z_vals, ret[1][k]) + Occurrences(Drawn, ret[1][k])

\* strictly increasing coarse depths and a drawn depth equal to one of them
C12_Witness ==
    /\ FSReturned
    /\ StrictlyIncreasing(in.z_vals)
    /\ in.number_samples >= 1
    /\ \E j \in 1..Len(Drawn) : \E k \in 1..Len(in.z_vals) : Drawn[j] = in.z_vals[k]
    /\ \E k \in 1..(Len(ret[1]) - 1) : ret[1][k] = ret[1][k + 1]

\* the PDF sample_pdf builds in the call
Pdf == pdf_of(InnerWeights)

\* the sum of the inner weights, 1e-5 added to each
InnerTotal == Sum(Tup([m \in 1..(Len(in.weights) - 2) |-> Add(in.weights[m + 1], PdfEps)]))

\* C13: the PDF that fine_sampling passes through sample_pdf for N coarse depths has
\* N - 1 entries.
C13_PdfHasNMinusOneEntries ==
    FS => Len(Pdf) = Len(in.z_vals) - 1

\* C13, amended: for N >= 2 coarse depths the bin edges are the N - 1 midpoints of
\* neighbouring depths and the PDF has N - 2 entries, one for each bin between two
\* edges, made of the weights of the inner samples and summing to 1 when there is
\* one; for N = 1 there is no edge and no entry.
C13_PdfHasNMinusTwoEntries ==
    FS =>
        /\ Len(Bins) = Len(in.z_vals) - 1
        /\ Len(Pdf) = Max2(0, Len(in.z_vals) - 2)
        /\ Len(cdf_of(InnerWeights)) = (IF Len(Pdf) >= 1 THEN Len(Bins) ELSE 0)
        /\ Len(Pdf) >= 1 => Sum(Pdf) = One
        /\ \A k \in 1..Len(Pdf) :
              Pdf[k] = Div(Add(in.weights[k + 1], PdfEps), InnerTotal)

\* four coarse depths: three edges and a PDF of two unequal entries
C13_Witness ==
    /\ FSReturned
    /\ Len(in.z_vals) = 4
    /\ in.number_samples >= 2
    /\ Len(Bins) = 3
    /\ Len(Pdf) = 2
    /\ Less(Pdf[1], Pdf[2])

\* the CDF sample_pdf builds in the call
Cdf == cdf_of(InnerWeights)

\* C14: for the non-negative weights of a call on two or more coarse depths, the
\* all-zero ones included, the CDF sample_pdf builds starts at exactly 0, is strictly
\* increasing and ends at 1, and sample_pdf returns one depth for every quantile
\* without raising.
C14_CdfAndNoRaise ==
    (FS /\ Len(in.z_vals) >= 2) =>
        /\ Len(Cdf) >= 2
        /\ Cdf[1] = Zero
        /\ StrictlyIncreasing(Cdf)
        /\ Cdf[Len(Cdf)] = One
        /\ ~raised
        /\ Len(Drawn) = in.number_samples

(* ---------------------------------------------------------------------- *)
(* Properties of sample_pdf                                                *)
(* ---------------------------------------------------------------------- *)

\* sample_pdf has returned its samples
SPReturned == pc = "returned" /\ in.fn = "sample_pdf" /\ ~raised

\* the CDF of the call, its quantiles and the depths it returned
CallCdf == cdf_of(in.weights)

Samples == ret[1]

Quantiles == Linspace(in.number_samples)

\* quantile j falls into bin i: cdf[i] <= u < cdf[i + 1]
InBin(j, i) == Leq(CallCdf[i], Quantiles[j]) /\ Less(Quantiles[j], CallCdf[i + 1])

CdfSpan(i) == Sub(CallCdf[i + 1], CallCdf[i])

\* the depth at the fraction t of bin i
AtFraction(i, t) == Add(in.bins[i], Mul(t, Sub(in.bins[i + 1], in.bins[i])))

\* the fraction (u - cdf[i]) / (cdf[i + 1] - cdf[i]) of quantile j in bin i
LinearFraction(j, i) == Div(Sub(Quantiles[j], CallCdf[i]), CdfSpan(i))

\* C15: every quantile u with cdf[i] <= u < cdf[i + 1] yields the depth at the
\* linearly interpolated position of bin i, inside [bins[i], bins[i + 1]].
C15_LinearInEveryBin ==
    SPReturned =>
        \A j \in 1..Len(Quantiles) : \A i \in 1..(Len(CallCdf) - 1) :
            InBin(j, i) =>
                /\ Samples[j] = AtFraction(i, LinearFraction(j, i))
                /\ Between(in.bins[i], Samples[j], in.bins[i + 1])

\* C15, amended: every quantile u with cdf[i] <= u < cdf[i + 1] yields a depth inside
\* [bins[i], bins[i + 1]]: at the linearly interpolated position when the CDF span of
\* the bin is at least 1e-5, and at the fraction u - cdf[i] (below 1e-5) of the bin
\* when the span is smaller.
C15_LinearUnlessThinBin ==
    SPReturned =>
        \A j \in 1..Len(Quantiles) : \A i \in 1..(Len(CallCdf) - 1) :
            InBin(j, i) =>
                /\ Samples[j] = AtFraction(i, IF Less(CdfSpan(i), PdfEps)
                                          THEN Sub(Quantiles[j], CallCdf[i])
                                          ELSE LinearFraction(j, i))
                /\ Between(in.bins[i], Samples[j], in.bins[i + 1])

\* a quantile strictly inside a bin of CDF span below 1e-5, drawn off the linearly
\* interpolated position
C15_Witness ==
    /\ SPReturned
    /\ \E j \in 1..Len(Quantiles) : \E i \in 1..(Len(CallCdf) - 1) :
          /\ InBin(j, i)
          /\ Less(CallCdf[i], Quantiles[j])
          /\ Less(CdfSpan(i), PdfEps)
          /\ Less(in.bins[i], Samples[j])
          /\ Less(Samples[j], AtFraction(i, LinearFraction(j, i)))

(* ---------------------------------------------------------------------- *)
(* Properties of get_rays                                                  *)
(* ---------------------------------------------------------------------- *)

\* get_rays has returned / has returned for an image and a positive focal length
GR == pc = "returned" /\ in.fn = "get_rays"

GRValid == GR /\ in.H >= 1 /\ in.W >= 1 /\ Sign(in.focal) > 0

\* entry (r, c) of the rotation block of the pose
Rot(r, c) == IntNum(in.camera_transform[r][c])

\* ((i - W/2) / f, -(j - H/2) / f, -1) for the pixel in column i and row j
CameraDirection(i, j) ==
    <<Div(Sub(IntNum(i), Rat(in.W, 2)), in.focal),
      Neg(Div(Sub(IntNum(j), Rat(in.H, 2)), in.focal)),
      IntNum(-1)>>

\* the matrix-vector product of the rotation block and d
Rotated(d) ==
    Tup([r \in 1..3 |->
        Add(Add(Mul(Rot(r, 1), d[1]), Mul(Rot(r, 2), d[2])), Mul(Rot(r, 3), d[3]))])

CentreDirection == ret[2][(in.H \div 2) + 1][(in.W \div 2) + 1]

C18_FailsFast ==
    (GR /\ (Sign(in.focal) <= 0 \/ in.H <= 0 \/ in.W <= 0)) => raised /\ ret = <<>>

(* ---------------------------------------------------------------------- *)
(* Properties of PositionalEncoder                                         *)
(* ---------------------------------------------------------------------- *)

\* encode has been called on an encoder with a frequency or the identity
ENC ==
    /\ pc = "encoder"
    /\ in.fn = "encode"
    /\ (encoder.number_frequencies >= 1 \/ encoder.include_identity)

IdentityWidth == IF encoder.include_identity THEN 1 ELSE 0

\* entry p (from 0) of the encoding: block p \div C of channel p % C; the blocks are
\* x, then sin(x * 2^k) and cos(x * 2^k) for k = 0, 1, ...
EncodingAt(x, p) ==
    IF encoder.include_identity /\ p \div Len(x) = 0
    THEN [fn |-> "identity", arg |-> x[(p % Len(x)) + 1]]
    ELSE [fn  |-> IF ((p \div Len(x)) - IdentityWidth) % 2 = 0 THEN "sin" ELSE "cos",
          arg |-> x[(p % Len(x)) + 1] * Pow2(((p \div Len(x)) - IdentityWidth) \div 2)]

EncodeStep == pc = "encoder" /\ pc' = "encoder" /\ in'.fn = "encode"

\* C19: for an encoder with a frequency or the identity, encode(x) is x (if
\* include_identity), then sin(x * 2^k) and cos(x * 2^k) for k ascending, joined along
\* the last axis; output_dim is include_identity + 2 * number_frequencies and the
\* width output_dim times the channels of x; a call of encode leaves the encoder as
\* it was, and a repeated call on the same input returns the same output.
C19_Encoding ==
    /\ [](ENC =>
            /\ ~raised
            /\ encoder.output_dim = IdentityWidth + 2 * encoder.number_frequencies
            /\ Len(ret) = encoder.output_dim * Len(in.coordinate)
            /\ \A p \in 0..(Len(ret) - 1) : ret[p + 1] = EncodingAt(in.coordinate, p))
    /\ [][EncodeStep =>
            /\ encoder' = encoder
            /\ (in.fn = "encode" /\ in'.coordinate = in.coordinate) => ret' = ret]_vars

\* two frequencies and the identity on a coordinate of two channels: ten entries, the
\* last one cos(2 * x[2])
C19_Witness ==
    /\ ENC
    /\ encoder.number_frequencies = 2 /\ encoder.include_identity
    /\ in.coordinate = <<3, -1>>
    /\ Len(ret) = 10
    /\ ret[1] = [fn |-> "identity", arg |-> 3]
    /\ ret[3] = [fn |-> "sin", arg |-> 3]
    /\ ret[10] = [fn |-> "cos", arg |-> -2]

(* ---------------------------------------------------------------------- *)
(* The warp stage                                                          *)
(* ---------------------------------------------------------------------- *)

\* the warp stage has returned
WP == pc = "returned" /\ in.fn = "warp"

\* the Euclidean distance of sample s to vertex v
Distance(s, v) == distances(in.ray_samples, in.goal_vertices)[s][v]

\* sample s is at least warp_radius away from every vertex
FarFromAll(s) ==
    \A v \in 1..Len(in.goal_vertices) : Leq(IntNum(in.warp_radius), Distance(s, v))

\* sample s has attention 0 for every vertex and is returned unmoved
Unwarped(s) ==
    /\ \A v \in 1..Len(in.goal_vertices) : loc.attentions_3[s][v] = Zero
    /\ ret[s] = Tup([ax \in 1..3 |-> IntNum(in.ray_samples[s][ax])])

\* C20: a sample at least warp_radius away from every vertex has attention 0
\* for every vertex and is returned unmoved, for every temperature >= 0 and
\* every displacement of the vertices
C20_FarSampleUnwarped ==
    WP => \A s \in 1..Len(in.ray_samples) : FarFromAll(s) => Unwarped(s)

\* the input of modified_softmax in the warp stage
SoftmaxInput ==
    attentions_2(distances(in.ray_samples, in.goal_vertices),
                 in.warp_radius, in.warp_temperature)

\* the attentions of sample s are numbers >= 0 whose sum is below 1
RowBelowOne(s) ==
    /\ \A v \in 1..Len(in.goal_vertices) :
          /\ IsFinite(loc.attentions_3[s][v])
          /\ Leq(Zero, loc.attentions_3[s][v])
    /\ IsFinite(FSum(loc.attentions_3[s]))
    /\ Less(FSum(loc.attentions_3[s]), One)

\* the vertices with input 0 have attention 0 for sample s
ZeroAtZero(s) ==
    \A v \in 1..Len(in.goal_vertices) :
        SoftmaxInput[s][v] = Zero => loc.attentions_3[s][v] = Zero

\* C21: for inputs >= 0 every attention of modified_softmax is >= 0, an input
\* of 0 gets the attention 0 whatever the other inputs are, and the attentions
\* of one sample sum to less than 1
C21_ShiftedSoftmax ==
    WP => \A s \in 1..Len(in.ray_samples) : RowBelowOne(s) /\ ZeroAtZero(s)

\* the attention-weighted sum of the displacements d for sample s
Combined(s, d) ==
    Tup([ax \in 1..3 |->
        FAdd(IntNum(in.ray_samples[s][ax]), warps_of(loc.attentions_3[s], d)[ax])])

\* the displacements are those from the vertex set `from' to the vertex set `to'
\* and the samples are moved by their attention-weighted sums
DisplacedBy(to, from) ==
    /\ \A v \in 1..Len(in.goal_vertices) : \A ax \in 1..3 :
          in.warp[v][ax] = to[v][ax] - from[v][ax]
    /\ \A s \in 1..Len(in.ray_samples) :
          ret[s] = Combined(s, Tup([v \in 1..Len(to) |->
                                  Tup([ax \in 1..3 |-> to[v][ax] - from[v][ax]])]))

\* the attentions are computed from the distances to the goal vertices
AttendsToGoal ==
    loc.attentions_3 = attentions_3(in.ray_samples, in.goal_vertices,
                                    in.warp_radius, in.warp_temperature)

\* C22 as stated: the displacement of a vertex is its target (goal) position
\* minus its reference (canonical) position, the distances being those to the
\* target vertices
C22_TargetMinusReference ==
    WP => DisplacedBy(in.goal_vertices, in.canonical_vertices) /\ AttendsToGoal

\* C22: the displacement of a vertex is its reference (canonical) position
\* minus its target (goal) position, the distances being those to the target
\* vertices
C22_ReferenceMinusTarget ==
    WP => DisplacedBy(in.canonical_vertices, in.goal_vertices) /\ AttendsToGoal

\* a sample on a goal vertex is moved onto the canonical position of the vertex
C22_Witness ==
    /\ WP
    /\ in.canonical_vertices # in.goal_vertices
    /\ in.warp_temperature = Big
    /\ Len(in.goal_vertices) = 1
    /\ in.ray_samples = << in.goal_vertices[1] >>
    /\ ret[1] = Tup([ax \in 1..3 |-> IntNum(in.canonical_vertices[1][ax])])

\* the attentions of sample s when the warp stage is given that sample alone
AttentionAlone(s) ==
    attentions_3(<< in.ray_samples[s] >>, in.goal_vertices,
                 in.warp_radius, in.warp_temperature)[1]

\* C23: the attentions of a sample are those it gets when it is processed
\* alone, whatever the other samples of the batch are
C23_AttentionIndependent ==
    WP => \A s \in 1..Len(in.ray_samples) : loc.attentions_3[s] = AttentionAlone(s)

(* ---------------------------------------------------------------------- *)
(* disjoint_indices                                                        *)
(* ---------------------------------------------------------------------- *)

\* disjoint_indices has returned
DI == pc = "returned" /\ in.fn = "disjoint_indices"

\* no index occurs twice in the array a
NoDuplicates(a) == \A i, j \in 1..Len(a) : a[i] = a[j] => i = j

SD == pc = "returned" /\ in.fn = "directions"

\* the ray direction divided by its norm
UnitDirection ==
    Tup([ax \in 1..3 |-> Div(IntNum(in.ray_direction[ax]), TorchNorm(in.ray_direction))])

\* C25: at every call site the direction encoder gets the unit vector of the
\* ray direction at every sample and raw2outputs gets the ray direction
\* itself, so that the scale factor norm(direction) is that of the ray at
\* every sample, whatever its depth
C25_UnitAndRawDirection ==
    SD => \A k \in 1..Len(in.z_vals) :
             /\ ret[1][k] = UnitDirection
             /\ ret[2][k] = in.ray_direction
             /\ TorchNorm(ret[2][k]) = TorchNorm(in.ray_direction)

(* ---------------------------------------------------------------------- *)
(* AppendVerticesPipeline.forward                                          *)
(* ---------------------------------------------------------------------- *)

\* forward has ended
FW == pc = "returned" /\ in.fn = "forward"

\* C26: forward ends without an exception; with run_fine false only the coarse
\* estimator and raw2outputs have run and the coarse colour is returned as both
\* colours; with run_fine true the steps are coarse estimator, raw2outputs,
\* fine_sampling, fine estimator, raw2outputs, the fine estimator is evaluated
\* on number_coarse_samples + number_fine_samples samples and the fine colour
\* is integrated over as many depths
C26_ForwardOrder ==
    FW => /\ ~raised
          /\ ~in.run_fine =>
                /\ loc.calls = <<"model_coarse", "raw2outputs">>
                /\ ret[1] = ret[2]
          /\ in.run_fine =>
                /\ loc.calls = <<"model_coarse", "raw2outputs", "fine_sampling",
                                 "model_fine", "raw2outputs">>
                /\ loc.evaluated = <<Len(in.z_vals),
                                     Len(in.z_vals) + args.number_fine_samples>>
                /\ Len(ret[3]) = Len(in.z_vals) + args.number_fine_samples

(* ---------------------------------------------------------------------- *)
(* The tensors of the caller                                               *)
(* ---------------------------------------------------------------------- *)

\* C27: when raw2outputs, sample_pdf, fine_sampling or a pass of forward has
\* ended, the tensors the caller passed still hold what they held at the
\* call: raw and the N coarse depths for raw2outputs and forward, the depths
\* and weights for fine_sampling, the bins and weights for sample_pdf
C27_ArgumentsUnchanged ==
    /\ (pc = "returned" /\ in.fn = "raw2outputs") =>
          caller.raw = in.raw /\ caller.z_vals = in.z_vals
    /\ (pc = "returned" /\ in.fn = "sample_pdf") =>
          caller.bins = in.bins /\ caller.weights = in.weights
    /\ (pc = "returned" /\ in.fn = "fine_sampling") =>
          caller.z_vals = in.z_vals /\ caller.weights = in.weights
    /\ (pc \in {"forward", "returned"} /\ in.fn = "forward") =>
          caller.raw = in.raw /\ caller.z_vals = in.z_vals

\* fine_sampling has returned more depths than the caller's tensor holds
C27_Witness ==
    /\ pc = "returned" /\ in.fn = "fine_sampling" /\ ~raised
    /\ Len(in.z_vals) = 3
    /\ Len(ret[1]) = 5
    /\ Len(caller.z_vals) = 3

\* encode has been called on the encoder, whatever its configuration
ENCAny == pc = "encoder" /\ in.fn = "encode"

\* C28: for every number of frequencies >= 0 and either setting of
\* include_identity, the one without any function included, encode(x) returns
\* without raising a tensor of width output_dim times the number of channels
C28_EncodeNeverRaises ==
    ENCAny => /\ ~raised
              /\ Len(ret) = encoder.output_dim * Len(in.coordinate)

(* ---------------------------------------------------------------------- *)
(* The training loops                                                      *)
(* ---------------------------------------------------------------------- *)

\* NerfSolver.train is running or has ended
NT == pc \in {"train", "returned"} /\ in.fn = "NerfSolver.train"

\* both models are in training mode in the record t
BothTraining(t) == t.model_coarse /\ t.model_fine

\* both models are in eval mode in the record t
BothEval(t) == ~t.model_coarse /\ ~t.model_fine

\* C29: in NerfSolver.train every optimizer step is taken with both models in
\* training mode, also after an in-epoch validation, and every validation
\* pass runs with both models in eval mode
C29_StepsInTrainingMode ==
    NT => /\ loc.event.kind = "optim.step" => BothTraining(loc.event.training)
          /\ loc.event.kind = "validation" => BothEval(loc.event.training)
          /\ (pc = "train" /\ loc.at = "step") => BothTraining(loc.training)

\* Solver.train with its defaults is running or has ended
ST == /\ pc \in {"train", "returned"} /\ in.fn = "Solver.train"
      /\ in.num_epochs = DefaultNumEpochs /\ in.log = 0

\* C30: Solver.train with its defaults runs every iteration of every epoch and
\* ends without raising, with one entry per iteration in
\* train_loss_history_per_iter and one per epoch in train_loss_history and
\* val_loss_history
C30_DefaultTrainCompletes ==
    ST => /\ ~raised
          /\ pc = "returned" =>
                /\ loc.train_loss_history_per_iter = in.num_epochs * in.iter_per_epoch
                /\ loc.train_loss_history = in.num_epochs
                /\ loc.val_loss_history = in.num_epochs

====
